---- MODULE Spec2Model ----
(***************************************************************************)
(* Model of the raw-handle core of the interprocess crate:                 *)
(*   - os/unix/fdops.rs: FdOps, the owning wrapper of a file descriptor,   *)
(*     its I/O methods, close_fd and the close-on-error helpers;           *)
(*   - os/windows/named_pipe/mod.rs: convert_path and                      *)
(*     set_nonblocking_for_stream.                                         *)
(* The specifications share the variables: Spec (one thread creating,     *)
(* using, converting and dropping FdOps values), SpecFair (Spec with the   *)
(* fairness of a running thread), SpecIo (every I/O input on one value),   *)
(* SpecShare (two threads sharing one value), SpecPipe (pipe mode words)   *)
(* and SpecPath (path naming).                                             *)
(***************************************************************************)
EXTENDS Integers, Sequences, FiniteSets, TLC

VARIABLES
    \* ---- path naming (convert_path)
    pathArgs,     \* arguments of the last convert_path call, or None
    pathOut,      \* its result (a sequence of u16 units), or None
    pathFirst,    \* arguments and result of the first call, or None
    \* ---- named-pipe mode words (set_nonblocking_for_stream)
    pipes,        \* pipe handle -> its stream type, OS mode word and history
    \* ---- descriptors (FdOps, close_fd, the close-on-error helpers)
    build,        \* "debug" or "release": whether debug_assert! is compiled in
    open,         \* the descriptors open in the OS
    rawHeld,      \* open raw descriptors owned by calling code, not wrapped
    badCtor,      \* a constructor was given a descriptor its caller did not own
    hs,           \* FdOps value -> its state, the descriptor it wraps, its creator
    th,           \* thread -> where it is and the locals of the call it runs
    errno,        \* thread -> its last OS error (thread-local)
    ret           \* what the call that returned in the last step returned, if any

pathVars == <<pathArgs, pathOut, pathFirst>>
pipeVars == <<pipes>>
fdVars == <<build, open, rawHeld, badCtor, hs, th, errno, ret>>

\* Option<T>: None is the empty sequence, Some(x) the sequence of x alone.
None == << >>
Some(x) == <<x>>

(***************************************************************************)
(* PathNaming.  An OsStr is modelled as its sequence of code points (a     *)
(* lone surrogate is a code point of its own, as in WTF-8); encode_wide    *)
(* turns it into UTF-16 units.                                             *)
(***************************************************************************)

\* Longest pipe name drawn from NameChars (the name "example" is added).
MaxNameLen == 2

NameChars == {97, 128512}            \* 'a', U+1F600

RECURSIVE SeqsUpTo(_, _)
SeqsUpTo(S, n) ==
    IF n = 0 THEN {<< >>}
    ELSE LET shorter == SeqsUpTo(S, n - 1)
         IN  shorter \cup {Append(s, c) : s \in {x \in shorter : Len(x) = n - 1}, c \in S}

ExampleName == <<101, 120, 97, 109, 112, 108, 101>>     \* "example"

\* The names over NameChars, "example", and a lone trail surrogate.
PipeNames == SeqsUpTo(NameChars, MaxNameLen) \cup {ExampleName, <<56832>>}

\* None, "s", U+1F600, a lone lead surrogate
HostNames == {None, Some(<<115>>), Some(<<128512>>), Some(<<55357>>)}

IsLeadSurrogate(c) == c >= 55296 /\ c <= 56319
IsTrailSurrogate(c) == c >= 56320 /\ c <= 57343

\* OsString::push: appends; a final lead surrogate and an initial trail
\* surrogate are joined into the supplementary code point they encode.
OsString_push(path, s) ==
    IF /\ Len(path) > 0 /\ Len(s) > 0
       /\ IsLeadSurrogate(path[Len(path)]) /\ IsTrailSurrogate(s[1])
    THEN SubSeq(path, 1, Len(path) - 1)
            \o <<65536 + (path[Len(path)] - 55296) * 1024 + (s[1] - 56320)>>
            \o SubSeq(s, 2, Len(s))
    ELSE path \o s

\* OsStrExt::encode_wide: one unit per code point of the basic plane, a
\* surrogate pair for a supplementary code point; no terminator.
RECURSIVE encode_wide(_)
encode_wide(s) ==
    IF s = << >> THEN << >>
    ELSE LET c == Head(s)
         IN  (IF c < 65536 THEN <<c>>
              ELSE <<55296 + ((c - 65536) \div 1024), 56320 + ((c - 65536) % 1024)>>)
             \o encode_wide(Tail(s))

\* A plausible slip: the terminating NUL is not pushed.
convert_path_noterm(pipe_name, hostname) ==
    LET p0 == <<92, 92>>
        p1 == OsString_push(p0, IF hostname # None THEN hostname[1] ELSE <<46>>)
        p2 == OsString_push(p1, <<92, 112, 105, 112, 101, 92>>)
        p3 == OsString_push(p2, pipe_name)
    IN  encode_wide(p3)

convert_path(pipe_name, hostname) ==
    LET p0 == <<92, 92>>                                          \* r"\\"
        p1 == IF hostname # None THEN OsString_push(p0, hostname[1])
                                 ELSE OsString_push(p0, <<46>>)   \* "."
        p2 == OsString_push(p1, <<92, 112, 105, 112, 101, 92>>)   \* r"\pipe\"
        p3 == OsString_push(p2, pipe_name)
        wide == encode_wide(p3)
    IN  Append(wide, 0)

InitPath ==
    /\ pathArgs = None
    /\ pathOut = None
    /\ pathFirst = None

\* One call of convert_path by a caller.
convert_path_call ==
    \E name \in PipeNames, host \in HostNames :
        /\ pathArgs' = Some([name |-> name, host |-> host])
        /\ pathOut' = Some(convert_path(name, host))
        /\ pathFirst' = IF pathFirst = None
                        THEN Some([args |-> pathArgs', out |-> pathOut'])
                        ELSE pathFirst
    /\ UNCHANGED <<pipeVars, fdVars>>

NextPath == convert_path_call

\* C7: the result of convert_path is the wide encoding of \\, the host (or
\* "."), \pipe\ and the name, followed by one terminating 0 as the last unit;
\* its length is 2 + len(host or ".") + 6 + len(name) + 1 in wide units;
\* "example" without host gives \\.\pipe\example and the terminator; a call
\* with the arguments of the first call returns what the first call returned.
C7_ConvertPath ==
    pathOut # None =>
        LET name == pathArgs[1].name
            host == IF pathArgs[1].host = None THEN <<46>> ELSE pathArgs[1].host[1]
            out  == pathOut[1]
        IN  /\ out = encode_wide(<<92, 92>>) \o encode_wide(host)
                           \o encode_wide(<<92, 112, 105, 112, 101, 92>>)
                           \o encode_wide(name) \o <<0>>
            /\ Len(out) = 2 + Len(encode_wide(host)) + 6 + Len(encode_wide(name)) + 1
            /\ out[Len(out)] = 0
            /\ (name = ExampleName /\ pathArgs[1].host = None) =>
                  out = <<92, 92, 46, 92, 112, 105, 112, 101, 92,
                              101, 120, 97, 109, 112, 108, 101, 0>>
            /\ pathFirst[1].args = pathArgs => pathFirst[1].out = pathOut

\* The scenario of the claim after an earlier, different call.
C7_Witness ==
    /\ pathOut # None
    /\ pathArgs = Some([name |-> ExampleName, host |-> None])
    /\ pathFirst[1].args # pathArgs
    /\ Len(pathOut[1]) = 17

(***************************************************************************)
(* ModeNegotiator.  The OS keeps one mode word per pipe handle: bit 0 is   *)
(* PIPE_NOWAIT, bit 1 is PIPE_READMODE_MESSAGE.                            *)
(***************************************************************************)

PipeHandles == {"p1", "p2"}

\* Successful changes of blocking-ness followed per pipe handle.
MaxToggles == 2

PIPE_READMODE_BYTE == 0
PIPE_READMODE_MESSAGE == 2

\* Stream::READ_MODE of the stream types: write-only, byte and message readers.
ReadModes == {None, Some("Bytes"), Some("Messages")}

\* PipeMode::to_readmode
to_readmode(m) == IF m = "Messages" THEN PIPE_READMODE_MESSAGE ELSE PIPE_READMODE_BYTE

\* Bitwise or of two naturals.
RECURSIVE BitOr(_, _)
BitOr(a, b) ==
    IF a = 0 THEN b
    ELSE IF b = 0 THEN a
    ELSE (IF a % 2 = 1 \/ b % 2 = 1 THEN 1 ELSE 0) + 2 * BitOr(a \div 2, b \div 2)

\* bool as u32
BoolAsU32(b) == IF b THEN 1 ELSE 0

\* The framing (read-mode) bits of a mode word: all but bit 0.
FramingBits(mode) == (mode \div 2) * 2

NoPipe == [exists |-> FALSE, read_mode |-> None, mode |-> 0, framing0 |-> 0,
           toggles |-> 0, last |-> "none", asked |-> FALSE]

InitPipe == pipes = [p \in PipeHandles |-> NoPipe]

\* A stream of a type with the given READ_MODE is created around a fresh
\* pipe handle, whose read mode is the one of the stream type; the handle
\* starts blocking.
create_pipe_stream(p, rm) ==
    /\ ~pipes[p].exists
    /\ LET m == IF rm = None THEN 0 ELSE to_readmode(rm[1])
       IN  pipes' = [pipes EXCEPT ![p] =
                        [exists |-> TRUE, read_mode |-> rm, mode |-> m,
                         framing0 |-> FramingBits(m), toggles |-> 0,
                         last |-> "none", asked |-> FALSE]]
    /\ UNCHANGED <<pathVars, fdVars>>

\* A plausible slip: the word is overwritten with the blocking flag alone.
stream_mode_word_overwrite(read_mode, nonblocking) == BoolAsU32(nonblocking)

\* let mut mode: u32 = read_mode | nonblocking as u32;
stream_mode_word(read_mode, nonblocking) == BitOr(read_mode, BoolAsU32(nonblocking))

\* set_nonblocking_for_stream::<Stream>(handle, nonblocking); the call of
\* SetNamedPipeHandleState succeeds or fails.
set_nonblocking_for_stream(p, nonblocking) ==
    /\ pipes[p].exists
    /\ pipes[p].toggles < MaxToggles
    /\ LET rm == pipes[p].read_mode
           read_mode == IF rm = None THEN 0 ELSE to_readmode(rm[1])
           mode == stream_mode_word(read_mode, nonblocking)
       IN  \E success \in BOOLEAN :
             pipes' = [pipes EXCEPT ![p] =
                IF success
                THEN [@ EXCEPT !.mode = mode,
                               !.toggles = IF mode # pipes[p].mode THEN @ + 1 ELSE @,
                               !.last = "Ok", !.asked = nonblocking]
                ELSE [@ EXCEPT !.last = "Err", !.asked = nonblocking]]
    /\ UNCHANGED <<pathVars, fdVars>>

NextPipe ==
    \/ \E p \in PipeHandles, rm \in ReadModes : create_pipe_stream(p, rm)
    \/ \E p \in PipeHandles, nb \in BOOLEAN : set_nonblocking_for_stream(p, nb)

\* C3: set_nonblocking_for_stream leaves the framing bits of the pipe's mode
\* word as they were set for the handle, whatever the read mode and the
\* requested blocking value and however often blocking-ness was toggled; a
\* successful call sets bit 0 to the requested value.
C3_FramingPreserved ==
    \A p \in PipeHandles :
        pipes[p].exists =>
            /\ FramingBits(pipes[p].mode) = pipes[p].framing0
            /\ pipes[p].last = "Ok" => pipes[p].mode % 2 = BoolAsU32(pipes[p].asked)

\* A message-mode handle whose blocking-ness was toggled twice.
C3_Witness ==
    \E p \in PipeHandles :
        /\ pipes[p].exists
        /\ pipes[p].framing0 = PIPE_READMODE_MESSAGE
        /\ pipes[p].toggles = 2
        /\ pipes[p].mode = PIPE_READMODE_MESSAGE


(***************************************************************************)
(* Handle.  FdOps wraps one c_int.  The OS side is a test double: a table  *)
(* of open descriptors, calls that return a result chosen by the           *)
(* environment, and a thread-local errno.                                  *)
(***************************************************************************)

Threads == {"t1", "t2"}
Handles == {"h1", "h2"}
Fds == {3, 4}

\* Interrupted results one run of close_fd may meet.
MaxInterrupts == 1
\* Longest buffer given to read and write.
MaxBufLen == 2
\* Width of c_int in bits.  The code's c_int has 32 bits; TLC's integers have
\* 32 too, so a count above c_int::MAX needs a narrower c_int here.
CIntBits == 3

RECURSIVE Pow2(_)
Pow2(n) == IF n = 0 THEN 1 ELSE 2 * Pow2(n - 1)

C_INT_MAX == Pow2(CIntBits - 1) - 1

\* io::Error::kind of an OS error
ErrorKind(e) == IF e = "EINTR" THEN "Interrupted" ELSE "Other"

IoErrors == {"EINTR", "EIO"}
SetupErrors == {"EADDRINUSE"}
IoOps == {"read", "write", "read_vectored", "write_vectored", "flush"}
Helpers == {"handle_fd_error", "close_by_error"}

\* The lengths of the buffers of a vectored call with n buffers.
Bufs(n) == [i \in 1..n |-> 1 + (i % 2)]

VecInputs == {Bufs(n) : n \in {0, 1, 2, C_INT_MAX, C_INT_MAX + 1, Pow2(CIntBits) + 1}}

RECURSIVE SumFirst(_, _)
SumFirst(bufs, n) ==
    IF n <= 0 \/ bufs = << >> THEN 0 ELSE Head(bufs) + SumFirst(Tail(bufs), n - 1)

\* usize::try_to::<c_int>()
TryToCInt(n) == IF n <= C_INT_MAX THEN Some(n) ELSE None

unwrap_or(opt, default) == IF opt = None THEN default ELSE opt[1]

\* A plausible slip: the count is cast (bufs.len() as c_int), which wraps.
num_bufs_cast(len) ==
    ((len + Pow2(CIntBits - 1)) % Pow2(CIntBits)) - Pow2(CIntBits - 1)

\* let num_bufs = bufs.len().try_to::<c_int>().unwrap_or(c_int::MAX);
num_bufs(len) == unwrap_or(TryToCInt(len), C_INT_MAX)

NoHandle == [st |-> "absent", fd |-> 0, creator |-> "-"]

IdleTh == [pc |-> "idle", op |-> "-", h |-> "-", fd |-> 0, bufs |-> << >>,
           len |-> 0, count |-> 0, calls |-> 0, e |-> "-", step |-> "-",
           intr |-> 0, okCalls |-> 0, fatal |-> FALSE]

NoRet == [op |-> "-", kind |-> "-", val |-> 0, err |-> "-", osret |-> 0, oserr |-> "-",
          calls |-> 0, bufs |-> << >>, len |-> 0, count |-> 0, step |-> "-",
          okCalls |-> 0, fatal |-> FALSE, success |-> TRUE, h |-> "-", fd |-> 0]

InitFd ==
    /\ build \in {"debug", "release"}
    /\ open = {}
    /\ rawHeld = {}
    /\ badCtor = FALSE
    /\ hs = [h \in Handles |-> NoHandle]
    /\ th = [t \in Threads |-> IdleTh]
    /\ errno = [t \in Threads |-> "-"]
    /\ ret = NoRet

Idle(t) == th[t].pc = "idle"

\* Some thread has an I/O call in progress through h (it holds &h).
Borrowed(h) == \E t \in Threads : th[t].pc = "io" /\ th[t].h = h

Min(S) == CHOOSE x \in S : \A y \in S : x <= y

\* A successful OS open/socket/accept by calling code: the lowest free
\* descriptor, now owned raw by the caller.
os_open(t) ==
    /\ Idle(t)
    /\ Fds \ open # {}
    /\ LET fd == Min(Fds \ open)
       IN  /\ open' = open \cup {fd}
           /\ rawHeld' = rawHeld \cup {fd}
    /\ ret' = NoRet
    /\ UNCHANGED <<pathVars, pipeVars, build, badCtor, hs, th, errno>>

\* FdOps::new(fd): wraps whatever value it is given.
FdOps_new(t, h, fd) ==
    /\ Idle(t)
    /\ hs[h].st \notin {"live", "closing"}
    /\ hs' = [hs EXCEPT ![h] = [st |-> "live", fd |-> fd, creator |-> t]]
    /\ badCtor' = (badCtor \/ fd \notin rawHeld)
    /\ rawHeld' = rawHeld \ {fd}
    /\ ret' = NoRet
    /\ UNCHANGED <<pathVars, pipeVars, build, open, th, errno>>

\* FromRawFd::from_raw_fd(fd) is Self::new(fd).
from_raw_fd(t, h, fd) == FdOps_new(t, h, fd)

\* The calling thread issues the one OS call of an I/O method through &self
\* and blocks in it; as_raw_fd() is the wrapped value.
IssueIo(t, h, op, len, bufs, count) ==
    /\ Idle(t)
    /\ hs[h].st = "live"
    /\ th' = [th EXCEPT ![t] = [IdleTh EXCEPT !.pc = "io", !.op = op, !.h = h,
                                  !.fd = hs[h].fd, !.len = len, !.bufs = bufs,
                                  !.count = count, !.calls = 1]]
    /\ ret' = NoRet
    /\ UNCHANGED <<pathVars, pipeVars, build, open, rawHeld, badCtor, hs, errno>>

\* libc::read(self.as_raw_fd(), buf, buf.len())
read(t, h, len) == IssueIo(t, h, "read", len, << >>, 0)

\* libc::write(self.as_raw_fd(), buf, buf.len())
write(t, h, len) == IssueIo(t, h, "write", len, << >>, 0)

\* libc::readv(self.as_raw_fd(), bufs, num_bufs)
read_vectored(t, h, bufs) == IssueIo(t, h, "read_vectored", 0, bufs, num_bufs(Len(bufs)))

\* libc::writev(self.as_raw_fd(), bufs, num_bufs)
write_vectored(t, h, bufs) == IssueIo(t, h, "write_vectored", 0, bufs, num_bufs(Len(bufs)))

\* libc::fsync(self.as_raw_fd())
flush(t, h) == IssueIo(t, h, "flush", 0, << >>, 0)

\* What the OS may answer to the I/O call a thread is blocked in: the value
\* returned and, when it is negative, the errno it sets.
OsIoResults(c) ==
    LET fail(E) == {[ret |-> -1, err |-> e] : e \in E}
        ok(N)   == {[ret |-> n, err |-> "-"] : n \in N}
    IN  IF c.fd \notin open THEN fail({"EBADF"})
        ELSE IF c.op \in {"read", "write"} THEN ok(0..c.len) \cup fail(IoErrors)
        ELSE IF c.op = "flush" THEN ok({0}) \cup fail(IoErrors)
        ELSE IF c.count < 0 THEN fail({"EINVAL"})
        ELSE ok({0, SumFirst(c.bufs, c.count)}) \cup fail(IoErrors)

\* The tail shared by the five methods:
\*   if success { Ok(n) } else { Err(io::Error::last_os_error()) }
IoReturns(t, r) ==
    /\ errno' = IF r.ret < 0 THEN [errno EXCEPT ![t] = r.err] ELSE errno
    /\ ret' =
                 [NoRet EXCEPT !.op = th[t].op,
                               !.kind = IF r.ret >= 0 THEN "Ok" ELSE "Err",
                               !.val = IF r.ret >= 0 THEN r.ret ELSE 0,
                               !.err = IF r.ret >= 0 THEN "-" ELSE errno'[t],
                               !.osret = r.ret, !.oserr = r.err,
                               !.calls = th[t].calls, !.len = th[t].len,
                               !.bufs = th[t].bufs, !.count = th[t].count,
                               !.h = th[t].h, !.fd = th[t].fd]
    /\ th' = [th EXCEPT ![t] = IdleTh]
    /\ UNCHANGED <<pathVars, pipeVars, build, open, rawHeld, badCtor, hs>>

\* A plausible slip: an interrupted call is issued again inside the method.
io_return_retry(t) ==
    /\ th[t].pc = "io"
    /\ \E r \in OsIoResults(th[t]) :
          IF r.ret < 0 /\ ErrorKind(r.err) = "Interrupted"
          THEN /\ th' = [th EXCEPT ![t].calls = 2]
               /\ errno' = [errno EXCEPT ![t] = r.err]
               /\ ret' = NoRet
               /\ UNCHANGED <<pathVars, pipeVars, build, open, rawHeld, badCtor, hs>>
          ELSE IoReturns(t, r)

\* The OS call of a blocked thread returns and the method returns.
io_return(t) ==
    /\ th[t].pc = "io"
    /\ \E r \in OsIoResults(th[t]) : IoReturns(t, r)

\* A plausible slip: self is not wrapped in ManuallyDrop, so it is dropped
\* when into_raw_fd returns.
into_raw_fd_dropping(t, h) ==
    /\ Idle(t)
    /\ hs[h].st = "live"
    /\ ~Borrowed(h)
    /\ hs' = [hs EXCEPT ![h] = [NoHandle EXCEPT !.st = "forgotten"]]
    /\ rawHeld' = rawHeld \cup {hs[h].fd}
    /\ th' = [th EXCEPT ![t] = [IdleTh EXCEPT !.pc = "close", !.op = "drop",
                                  !.h = h, !.fd = hs[h].fd]]
    /\ ret' = NoRet
    /\ UNCHANGED <<pathVars, pipeVars, build, open, badCtor, errno>>

\* IntoRawFd::into_raw_fd(self): ManuallyDrop::new(self), then the value.
into_raw_fd(t, h) ==
    /\ Idle(t)
    /\ hs[h].st = "live"
    /\ ~Borrowed(h)
    /\ hs' = [hs EXCEPT ![h] = [NoHandle EXCEPT !.st = "forgotten"]]
    /\ rawHeld' = rawHeld \cup {hs[h].fd}
    /\ ret' = [NoRet EXCEPT !.op = "into_raw_fd", !.kind = "Ok",
                                    !.val = hs[h].fd, !.h = h, !.fd = hs[h].fd]
    /\ UNCHANGED <<pathVars, pipeVars, build, open, badCtor, th, errno>>

\* A plausible slip: a close that takes &self, so it can run while another
\* thread is inside an I/O call through the same value.
drop_shared(t, h) ==
    /\ Idle(t)
    /\ hs[h].st = "live"
    /\ hs' = [hs EXCEPT ![h].st = "closing"]
    /\ th' = [th EXCEPT ![t] = [IdleTh EXCEPT !.pc = "close", !.op = "drop",
                                  !.h = h, !.fd = hs[h].fd]]
    /\ ret' = NoRet
    /\ UNCHANGED <<pathVars, pipeVars, build, open, rawHeld, badCtor, errno>>

\* Drop::drop(&mut self): close_fd(self.0) is entered.  The value is owned
\* by the dropping thread, so no & of it is left.
drop(t, h) ==
    /\ Idle(t)
    /\ hs[h].st = "live"
    /\ ~Borrowed(h)
    /\ hs' = [hs EXCEPT ![h].st = "closing"]
    /\ th' = [th EXCEPT ![t] = [IdleTh EXCEPT !.pc = "close", !.op = "drop",
                                  !.h = h, !.fd = hs[h].fd]]
    /\ ret' = NoRet
    /\ UNCHANGED <<pathVars, pipeVars, build, open, rawHeld, badCtor, errno>>

\* What the OS may answer to libc::close(fd): 0 and the descriptor is
\* released; -1/EINTR and it stays open; -1 with another error, after which
\* the descriptor's disposition is undefined (released or not).
OsCloseResults(fd, intr) ==
    IF fd \notin open
    THEN {[rc |-> -1, err |-> "EBADF", released |-> FALSE]}
    ELSE {[rc |-> 0, err |-> "-", released |-> TRUE]}
         \cup (IF intr < MaxInterrupts
               THEN {[rc |-> -1, err |-> "EINTR", released |-> FALSE]} ELSE {})
         \cup {[rc |-> -1, err |-> "EIO", released |-> b] : b \in BOOLEAN}

\* A plausible slip: the loop retries after every failure.
close_retries_any(rc, err) == rc # 0

\* A plausible slip: close is called once, without a retry.
close_retries_never(rc, err) == FALSE

\* while libc::close(fd) != 0 { if kind != Interrupted { break } }: whether
\* the loop goes round again after a call returned rc with errno err.
close_retries(rc, err) == rc # 0 /\ ErrorKind(err) = "Interrupted"

\* success as the loop leaves it: false only on the non-interrupted branch.
close_success(rc, err) == ~(rc # 0 /\ ErrorKind(err) # "Interrupted")

\* One libc::close call of close_fd; when the loop ends, debug_assert!(success)
\* and the return to the caller (Drop::drop, handle_fd_error's `e`, the
\* closure of close_by_error's `e`).
close_fd(t) ==
    /\ th[t].pc = "close"
    /\ \E r \in OsCloseResults(th[t].fd, th[t].intr) :
        LET c == th[t]
            err == IF r.rc # 0 THEN r.err ELSE errno[t]
            nOk == IF r.rc = 0 THEN c.okCalls + 1 ELSE c.okCalls
            nCalls == IF c.calls <= MaxInterrupts THEN c.calls + 1 ELSE c.calls
            isFatal == c.fatal \/ (r.rc # 0 /\ ErrorKind(r.err) # "Interrupted")
            success == close_success(r.rc, err)
            panics == build = "debug" /\ ~success
        IN  /\ open' = IF r.released THEN open \ {c.fd} ELSE open
            /\ errno' = [errno EXCEPT ![t] = err]
            /\ IF close_retries(r.rc, err)
               THEN /\ th' = [th EXCEPT ![t].intr = IF c.intr < MaxInterrupts
                                                    THEN c.intr + 1 ELSE c.intr,
                                        ![t].okCalls = nOk,
                                        ![t].calls = nCalls,
                                        ![t].fatal = isFatal]
                    /\ ret' = NoRet
                    /\ UNCHANGED hs
               ELSE /\ th' = [th EXCEPT ![t] =
                                IF panics THEN [IdleTh EXCEPT !.pc = "panicked"]
                                          ELSE IdleTh]
                    /\ hs' = IF c.op = "drop"
                             THEN [hs EXCEPT ![c.h] = [NoHandle EXCEPT !.st = "dropped"]]
                             ELSE hs
                    /\ ret' =
                                 [NoRet EXCEPT
                                    !.op = c.op,
                                    !.kind = IF panics THEN "panic"
                                             ELSE IF c.op = "drop" THEN "unit"
                                             ELSE "Err",
                                    !.err = IF panics \/ c.op = "drop" THEN "-" ELSE c.e,
                                    !.step = c.step, !.okCalls = nOk,
                                    !.calls = nCalls, !.fatal = isFatal,
                                    !.success = success, !.h = c.h, !.fd = c.fd]
    /\ UNCHANGED <<pathVars, pipeVars, build, rawHeld, badCtor>>

\* A step of a multi-step setup fails after the raw descriptor exists: the
\* failed OS call leaves its error in errno.
setup_step_fails(t, fd, e) ==
    /\ Idle(t)
    /\ fd \in rawHeld
    /\ rawHeld' = rawHeld \ {fd}
    /\ errno' = [errno EXCEPT ![t] = e]
    /\ th' = [th EXCEPT ![t] = [IdleTh EXCEPT !.pc = "setup_failed", !.fd = fd,
                                  !.step = e]]
    /\ ret' = NoRet
    /\ UNCHANGED <<pathVars, pipeVars, build, open, badCtor, hs>>

\* A plausible slip: the error is returned and the descriptor is not closed.
handle_fd_error_noclose(t) ==
    /\ th[t].pc = "setup_failed"
    /\ th' = [th EXCEPT ![t] = IdleTh]
    /\ ret' = [NoRet EXCEPT !.op = "handle_fd_error",
                                    !.kind = "Err", !.err = errno[t],
                                    !.step = th[t].step, !.fd = th[t].fd]
    /\ UNCHANGED <<pathVars, pipeVars, build, open, rawHeld, badCtor, hs, errno>>

\* handle_fd_error(fd): let e = last_os_error(); then close_fd(fd) is entered.
handle_fd_error(t) ==
    /\ th[t].pc = "setup_failed"
    /\ th' = [th EXCEPT ![t].pc = "close", ![t].op = "handle_fd_error",
                        ![t].e = errno[t]]
    /\ ret' = NoRet
    /\ UNCHANGED <<pathVars, pipeVars, build, open, rawHeld, badCtor, hs, errno>>

\* close_by_error(socket)(e): the closure is handed the error of the failed
\* step; then close_fd(socket) is entered.
close_by_error(t) ==
    /\ th[t].pc = "setup_failed"
    /\ th' = [th EXCEPT ![t].pc = "close", ![t].op = "close_by_error",
                        ![t].e = th[t].step]
    /\ ret' = NoRet
    /\ UNCHANGED <<pathVars, pipeVars, build, open, rawHeld, badCtor, hs, errno>>

vars == <<pathVars, pipeVars, fdVars>>

Init == InitPath /\ InitPipe /\ InitFd

\* The steps of the descriptor machine taken by the threads T on the values
\* H, with buffers of the lengths L and the vectored inputs V.
FdSteps(T, H, L, V) ==
    \/ \E t \in T : os_open(t)
    \/ \E t \in T, h \in H, fd \in Fds : FdOps_new(t, h, fd)
    \/ \E t \in T, h \in H, fd \in Fds : from_raw_fd(t, h, fd)
    \/ \E t \in T, h \in H, len \in L : read(t, h, len)
    \/ \E t \in T, h \in H, len \in L : write(t, h, len)
    \/ \E t \in T, h \in H, bufs \in V : read_vectored(t, h, bufs)
    \/ \E t \in T, h \in H, bufs \in V : write_vectored(t, h, bufs)
    \/ \E t \in T, h \in H : flush(t, h)
    \/ \E t \in T : io_return(t)
    \/ \E t \in T, h \in H : into_raw_fd(t, h)
    \/ \E t \in T, h \in H : drop(t, h)
    \/ \E t \in T : close_fd(t)
    \/ \E t \in T, fd \in Fds, e \in SetupErrors : setup_step_fails(t, fd, e)
    \/ \E t \in T : handle_fd_error(t)
    \/ \E t \in T : close_by_error(t)

\* One thread creating, using, converting and dropping the values.
NextFd == FdSteps({"t1"}, Handles, {MaxBufLen}, {Bufs(1)})

\* One thread and one value, with every buffer length and vectored input.
NextIo == FdSteps({"t1"}, {"h1"}, 0..MaxBufLen, VecInputs)

\* Two threads and one value, which is Send and Sync: either thread may
\* create it, call its methods through a shared reference, and the one that
\* owns it in the end converts or drops it.
ShareSteps(T, h) ==
    \/ \E t \in T : os_open(t)
    \/ \E t \in T, fd \in Fds : FdOps_new(t, h, fd)
    \/ \E t \in T : read(t, h, MaxBufLen)
    \/ \E t \in T : write(t, h, MaxBufLen)
    \/ \E t \in T : read_vectored(t, h, Bufs(1))
    \/ \E t \in T : write_vectored(t, h, Bufs(1))
    \/ \E t \in T : flush(t, h)
    \/ \E t \in T : io_return(t)
    \/ \E t \in T : into_raw_fd(t, h)
    \/ \E t \in T : drop(t, h)
    \/ \E t \in T : close_fd(t)

NextShare == ShareSteps(Threads, "h1")

Spec == Init /\ [][NextFd]_vars

\* A thread inside close_fd keeps running.
SpecFair ==
    /\ Spec
    /\ \A t \in Threads : WF_vars(close_fd(t))

SpecIo == Init /\ [][NextIo]_vars

SpecShare == Init /\ [][NextShare]_vars

SpecPath == Init /\ [][NextPath]_vars

SpecPipe == Init /\ [][NextPipe]_vars

(***************************************************************************)
(* The claims about the descriptor machine.                                *)
(***************************************************************************)

CloseOps == {"drop"} \cup Helpers

\* The threads running close_fd for the drop of h.
DropRuns(h) == {t \in Threads : th[t].pc = "close" /\ th[t].op = "drop" /\ th[t].h = h}

\* The FdOps values that own fd: alive, or being dropped.
Owners(fd) == {h \in Handles : hs[h].st \in {"live", "closing"} /\ hs[h].fd = fd}

\* C1: whatever number of interrupted results close meets, close_fd ends; a
\* run that met no other failure ends in success with exactly one successful
\* close call, the descriptor released, and no close call after the success.
C1_CloseTerminates ==
    /\ [](\A t \in Threads : th[t].pc = "close" => th[t].okCalls = 0)
    /\ []((ret.op \in CloseOps /\ ~ret.fatal) =>
             /\ ret.success
             /\ ret.kind # "panic"
             /\ ret.okCalls = 1
             /\ ret.fd \notin open)
    /\ \A t \in Threads : (th[t].pc = "close") ~> (th[t].pc # "close")

\* A drop whose close was interrupted and then succeeded.
C1_Witness ==
    /\ ret.op = "drop"
    /\ ret.success
    /\ ret.okCalls = 1
    /\ ret.calls >= 2

\* C2, as stated: at most one FdOps value owns a descriptor, whatever the
\* constructors were given.
C2_Original == \A fd \in Fds : Cardinality(Owners(fd)) <= 1

\* C2, amended: as long as every constructor was given an open descriptor
\* that its caller owned raw, at most one FdOps value owns a descriptor, the
\* descriptor of a live value is open and not also held raw, and a drop
\* closes a descriptor that is still open and that nobody else holds.
C2_UniqueOwner ==
    ~badCtor =>
        /\ \A fd \in Fds : Cardinality(Owners(fd)) <= 1
        /\ \A h \in Handles :
              hs[h].st = "live" => hs[h].fd \in open /\ hs[h].fd \notin rawHeld
        /\ \A t \in Threads :
              (th[t].pc = "close" /\ th[t].op = "drop") =>
                  /\ th[t].fd \in open
                  /\ th[t].fd \notin rawHeld
                  /\ Owners(th[t].fd) = {th[t].h}
        /\ rawHeld \subseteq open

\* A descriptor moved from h1 to h2 through into_raw_fd and from_raw_fd.
C2_Witness ==
    /\ ~badCtor
    /\ hs["h1"].st = "forgotten"
    /\ hs["h2"].st = "live"
    /\ open = {hs["h2"].fd}
    /\ rawHeld = {}

\* C4, as stated: when a helper returns the error, the descriptor was closed
\* exactly once and the error is the one of the failed step.
C4_Original ==
    (ret.op \in Helpers /\ ret.kind = "Err") =>
        /\ ret.err = ret.step
        /\ ret.okCalls = 1
        /\ ret.fd \notin open

\* C4, amended: the error is captured before the first close call and is
\* the one returned; when close_fd succeeded the descriptor was closed exactly
\* once and is no longer open; the error is returned after a failed close
\* only in a release build.
C4_CloseThenReturn ==
    /\ \A t \in Threads :
          (th[t].pc = "close" /\ th[t].op \in Helpers) => th[t].e = th[t].step
    /\ (ret.op \in Helpers /\ ret.kind = "Err") =>
          /\ ret.err = ret.step
          /\ ret.success => (ret.okCalls = 1 /\ ret.fd \notin open)
          /\ ~ret.success => (build = "release" /\ ret.fatal /\ ret.okCalls = 0)

\* handle_fd_error returns the error of the failed step although the close
\* it made was interrupted once and overwrote errno.
C4_Witness ==
    /\ ret.op = "handle_fd_error"
    /\ ret.kind = "Err"
    /\ ret.err = "EADDRINUSE"
    /\ ret.okCalls = 1
    /\ ret.calls >= 2
    /\ errno["t1"] = "EINTR"

\* C5: an I/O method makes one OS call; a result n >= 0 is returned as Ok(n),
\* also when n is less than the buffer length; a negative result is returned
\* as the error of the OS, an interruption included, without a retry.
C5_SingleOsCall ==
    /\ \A t \in Threads : th[t].pc = "io" => th[t].calls = 1
    /\ ret.op \in IoOps =>
          /\ ret.calls = 1
          /\ ret.osret >= 0 => (ret.kind = "Ok" /\ ret.val = ret.osret)
          /\ ret.osret < 0 => (ret.kind = "Err" /\ ret.err = ret.oserr)

\* An interrupted write is returned as an error after one call.
C5_Witness ==
    /\ ret.op = "write"
    /\ ret.kind = "Err"
    /\ ret.err = "EINTR"
    /\ ret.calls = 1

\* C6: the buffer count given to readv/writev is min(number of buffers,
\* c_int::MAX), never negative, and the byte count returned is at most the
\* total length of the buffers that took part.
C6_ClampedCount ==
    /\ \A t \in Threads :
          (th[t].pc = "io" /\ th[t].op \in {"read_vectored", "write_vectored"}) =>
              th[t].count = (IF Len(th[t].bufs) < C_INT_MAX
                             THEN Len(th[t].bufs) ELSE C_INT_MAX)
    /\ ret.op \in {"read_vectored", "write_vectored"} =>
          /\ ret.count >= 0
          /\ ret.count = (IF Len(ret.bufs) < C_INT_MAX THEN Len(ret.bufs) ELSE C_INT_MAX)
          /\ ret.kind \in {"Ok", "Err"}
          /\ ret.kind = "Ok" => ret.val <= SumFirst(ret.bufs, C_INT_MAX)

\* A vectored read of more than c_int::MAX buffers that filled the first
\* c_int::MAX of them and no more.
C6_Witness ==
    /\ ret.op = "read_vectored"
    /\ Len(ret.bufs) > C_INT_MAX
    /\ ret.kind = "Ok"
    /\ ret.val = SumFirst(ret.bufs, C_INT_MAX)
    /\ ret.val < SumFirst(ret.bufs, Len(ret.bufs))

\* C8, as stated: no two threads have an I/O call in progress on the same
\* value.
C8_Original ==
    \A h \in Handles :
        Cardinality({t \in Threads : th[t].pc = "io" /\ th[t].h = h}) <= 1

\* C8, amended: while a thread has an I/O call in progress through a value,
\* the value is alive: it has not been converted, and no close call is made
\* for it.
C8_NoCloseDuringIo ==
    \A t \in Threads :
        th[t].pc = "io" => (hs[th[t].h].st = "live" /\ DropRuns(th[t].h) = {})

\* Both threads are inside an I/O call on the value that t1 created.
C8_Witness ==
    /\ hs["h1"].creator = "t1"
    /\ \A t \in Threads : th[t].pc = "io" /\ th[t].h = "h1"

\* C9: after a close call failed with an error other than EINTR, close_fd
\* makes no further close call; it hands no error of the close to its caller;
\* success is false, which panics in a debug build and nowhere else.
C9_FatalClose ==
    /\ \A t \in Threads : th[t].pc = "close" => ~th[t].fatal
    /\ \A t \in Threads : th[t].pc = "panicked" => build = "debug"
    /\ (ret.op \in CloseOps /\ ret.fatal) =>
          /\ ~ret.success
          /\ ret.okCalls = 0
          /\ ret.kind = (IF build = "debug" THEN "panic"
                         ELSE IF ret.op = "drop" THEN "unit" ELSE "Err")
          /\ ret.kind = "Err" => ret.err = ret.step
    /\ ret.kind = "panic" => (ret.fatal /\ build = "debug")

\* A drop whose close was interrupted, then failed, in a debug build.
C9_Witness ==
    /\ ret.op = "drop"
    /\ ret.fatal
    /\ ret.calls >= 2
    /\ ret.kind = "panic"
    /\ \E t \in Threads : th[t].pc = "panicked"

\* A step that issues or completes an I/O call.
IoStep ==
    \E t \in Threads : (th[t].pc = "io") # (th'[t].pc = "io")

\* C10: into_raw_fd returns the wrapped value and makes no close call, then
\* or later; a dropped value runs close_fd once; no I/O call is in progress
\* through a value that was converted or dropped; an I/O call neither closes
\* a descriptor nor changes a value.
C10_IntoRawKeepsOpen ==
    /\ [](\A t \in Threads :
             (th[t].pc = "close" /\ th[t].op = "drop") => hs[th[t].h].st = "closing")
    /\ [](\A h \in Handles : hs[h].st = "closing" => Cardinality(DropRuns(h)) = 1)
    /\ [](\A t \in Threads : th[t].pc = "io" => hs[th[t].h].st = "live")
    /\ [](ret.op = "into_raw_fd" =>
             (ret.kind = "Ok" /\ hs[ret.h].st = "forgotten" /\ ret.val \in rawHeld))
    /\ [][ret'.op = "into_raw_fd" =>
             (ret'.val = hs[ret'.h].fd /\ open' = open)]_vars
    /\ [][IoStep => (open' = open /\ hs' = hs)]_vars

\* into_raw_fd returned a descriptor that is open.
C10_Witness ==
    /\ ret.op = "into_raw_fd"
    /\ ret.val \in open
    /\ \E h \in Handles : hs[h].st = "dropped"

====
